---- MODULE Spec2Model ----
(***************************************************************************)
(* Chart scaffolding of helm's chartutil package (pkg/chartutil/create.go):*)
(* name validation, placeholder substitution, the new-chart / add-module   *)
(* decision of Create, file writing with overwrite warnings and the append *)
(* to values.yaml.                                                         *)
(*                                                                         *)
(* Strings are TLA+ strings, indexed with Len, SubSeq and \o.  A path is   *)
(* a string with "/" as separator.  The filesystem is a function from the *)
(* cleaned absolute path of every existing entry to that entry.            *)
(***************************************************************************)
EXTENDS Integers, Sequences, FiniteSets, TLC

VARIABLES fs, cwd, hist, nenv

vars == <<fs, cwd, hist, nenv>>

(***************************************************************************)
(* Bounds of the model.                                                    *)
(***************************************************************************)
\* longest name that is enumerated character by character
MaxNameLen == 2
\* number of Create invocations in one behaviour
MaxRuns == 2
\* number of permission changes made by the environment in one behaviour
MaxEnv == 1
\* number of templates of a source chart given to CreateFrom
MaxTemplates == 2

(***************************************************************************)
(* String helpers (package strings).                                       *)
(***************************************************************************)
\* strings.Repeat
RECURSIVE Repeat(_, _)
Repeat(s, n) ==
    IF n <= 0 THEN ""
    ELSE LET h == Repeat(s, n \div 2)
         IN  IF n % 2 = 0 THEN h \o h ELSE h \o h \o s

CharAt(s, i) == SubSeq(s, i, i)

HasPrefix(s, p) == Len(s) >= Len(p) /\ SubSeq(s, 1, Len(p)) = p

\* the positions at which sub occurs in s
Occurrences(s, sub) ==
    {i \in 1..(Len(s) - Len(sub) + 1) : SubSeq(s, i, i + Len(sub) - 1) = sub}

\* strings.Contains
Contains(s, sub) == Occurrences(s, sub) # {}

\* strings.Index, 1-based; 0 when sub does not occur
Index(s, sub) ==
    LET occ == Occurrences(s, sub)
    IN  IF occ = {} THEN 0 ELSE CHOOSE i \in occ : \A j \in occ : i <= j

\* strings.LastIndex, 1-based; 0 when sub does not occur
LastIndex(s, sub) ==
    LET occ == Occurrences(s, sub)
    IN  IF occ = {} THEN 0 ELSE CHOOSE i \in occ : \A j \in occ : i >= j

\* strings.ReplaceAll for a non-empty old: the leftmost match is replaced and
\* the search goes on behind it, so matches do not overlap and the
\* replacement is not searched again.
RECURSIVE ReplaceAll(_, _, _)
ReplaceAll(s, old, new) ==
    LET i == Index(s, old)
    IN  IF i = 0 THEN s
        ELSE SubSeq(s, 1, i - 1) \o new
               \o ReplaceAll(SubSeq(s, i + Len(old), Len(s)), old, new)

\* fmt.Sprintf(format, arg) for a format whose only verb is one %s.
Sprintf(format, arg) ==
    LET i == Index(format, "%s")
    IN  IF i = 0 THEN format
        ELSE SubSeq(format, 1, i - 1) \o arg \o SubSeq(format, i + 2, Len(format))

\* strings.Split(s, sepc) for a one-character separator.
RECURSIVE Split(_, _)
Split(s, sepc) ==
    LET i == Index(s, sepc)
    IN  IF i = 0 THEN <<s>>
        ELSE <<SubSeq(s, 1, i - 1)>> \o Split(SubSeq(s, i + 1, Len(s)), sepc)

(***************************************************************************)
(* Path helpers (package path/filepath).                                   *)
(***************************************************************************)
sep == "/"

IsAbs(p) == HasPrefix(p, sep)

\* the component stack of filepath.Clean: "" and "." are dropped, ".."
\* removes the previous component, stays at the root of a rooted path and is
\* kept at the front of a relative one.
RECURSIVE CleanParts(_, _, _)
CleanParts(parts, rooted, acc) ==
    IF parts = <<>> THEN acc
    ELSE LET c == Head(parts)
             rest == Tail(parts)
         IN  IF c = "" \/ c = "." THEN CleanParts(rest, rooted, acc)
             ELSE IF c = ".."
                  THEN IF acc # <<>> /\ acc[Len(acc)] # ".."
                       THEN CleanParts(rest, rooted, SubSeq(acc, 1, Len(acc) - 1))
                       ELSE IF rooted THEN CleanParts(rest, rooted, acc)
                            ELSE CleanParts(rest, rooted, Append(acc, c))
                  ELSE CleanParts(rest, rooted, Append(acc, c))

RECURSIVE JoinParts(_)
JoinParts(parts) ==
    IF parts = <<>> THEN ""
    ELSE IF Len(parts) = 1 THEN parts[1]
         ELSE parts[1] \o sep \o JoinParts(Tail(parts))

Clean(p) ==
    LET body == JoinParts(CleanParts(Split(p, sep), IsAbs(p), <<>>))
    IN  IF IsAbs(p) THEN sep \o body
        ELSE IF body = "" THEN "." ELSE body

\* filepath.Join of two elements: empty elements are ignored, the result is
\* cleaned, and the join of nothing is the empty string.
Join(a, b) ==
    IF a = "" /\ b = "" THEN ""
    ELSE IF a = "" THEN Clean(b)
         ELSE IF b = "" THEN Clean(a)
              ELSE Clean(a \o sep \o b)

\* filepath.Dir: everything up to the last separator, cleaned.
Dir(p) ==
    LET i == LastIndex(p, sep)
    IN  IF i = 0 THEN "." ELSE Clean(SubSeq(p, 1, i))

\* filepath.Base of a cleaned path.
Base(p) == SubSeq(p, LastIndex(p, sep) + 1, Len(p))

\* filepath.Abs: an absolute path is cleaned, a relative one is joined to
\* the working directory.
Abs(wd, p) == IF IsAbs(p) THEN Clean(p) ELSE Join(wd, p)

(***************************************************************************)
(* Name validation.                                                        *)
(***************************************************************************)
maxChartNameLength == 250

Lower == {"a","b","c","d","e","f","g","h","i","j","k","l","m",
          "n","o","p","q","r","s","t","u","v","w","x","y","z"}
Upper == {"A","B","C","D","E","F","G","H","I","J","K","L","M",
          "N","O","P","Q","R","S","T","U","V","W","X","Y","Z"}
Digit == {"0","1","2","3","4","5","6","7","8","9"}

\* the character class of the regular expression chartName
chartNameClass == Lower \cup Upper \cup Digit \cup {".", "_", "-"}

\* chartName.MatchString: ^[a-zA-Z0-9._-]+$ (no multi-line flag, so $ is the
\* end of the text).
chartNameMatch(name) ==
    /\ Len(name) >= 1
    /\ \A i \in 1..Len(name) : CharAt(name, i) \in chartNameClass

ErrNil == "nil"
ErrNameLength == "chart name must be between 1 and 250 characters"
ErrNameChars == "chart name must match the regular expression"

\* the length test with the limit itself taken for too long
validateChartName_LimitExcluded(name) ==
    IF name = "" \/ Len(name) >= maxChartNameLength THEN ErrNameLength
    ELSE IF ~chartNameMatch(name) THEN ErrNameChars
         ELSE ErrNil

validateChartName(name) ==
    IF name = "" \/ Len(name) > maxChartNameLength THEN ErrNameLength
    ELSE IF ~chartNameMatch(name) THEN ErrNameChars
         ELSE ErrNil

(***************************************************************************)
(* Template registry.  Every body is abridged to its leading lines that    *)
(* carry the placeholder; the marker text is the source's own.             *)
(***************************************************************************)
moduleNameTemplate == "<MODULE>_"

ChartfileName == "Chart.yaml"
ValuesfileName == "values.yaml"
TemplatesDir == "templates"
ChartsDir == "charts"
TemplatesTestsDir == TemplatesDir \o sep \o "tests"
IgnorefileName == ".helmignore"
IngressFileName == TemplatesDir \o sep \o moduleNameTemplate \o "_ingress.yaml"
DeploymentName == TemplatesDir \o sep \o moduleNameTemplate \o "_deployment.yaml"
ServiceName == TemplatesDir \o sep \o moduleNameTemplate \o "_service.yaml"
ServiceAccountName == TemplatesDir \o sep \o moduleNameTemplate \o "_serviceaccount.yaml"
HorizontalPodAutoscalerName == TemplatesDir \o sep \o moduleNameTemplate \o "_hpa.yaml"
NotesName == TemplatesDir \o sep \o "NOTES.txt"
HelpersName == TemplatesDir \o sep \o "_" \o moduleNameTemplate \o "_helpers.tpl"
TestConnectionName == TemplatesTestsDir \o sep \o moduleNameTemplate \o "_test-connection.yaml"

defaultChartfile == "apiVersion: v2\nname: %s\ntype: application\n"

defaultValues ==
    "# Default values for %s.\n\n<MODULE_NAME>:\n  replicaCount: 1\n\n  affinity: {}\n"

defaultIgnore == "# Patterns to ignore when building packages.\n.DS_Store\n"

defaultIngress ==
    "{{- if .Values.<MODULE_NAME>.ingress.enabled -}}\n{{- $fullName := include \"<MODULE_NAME>.fullname\" . -}}\n"

defaultDeployment ==
    "kind: Deployment\n  name: {{ include \"<MODULE_NAME>.fullname\" . }}\n  replicas: {{ .Values.<MODULE_NAME>.replicaCount }}\n"

defaultService ==
    "kind: Service\n  type: {{ .Values.<MODULE_NAME>.service.type }}\n    app.kubernetes.io/name: {{ include \"<MODULE_NAME>.name\" . }}\n"

defaultServiceAccount ==
    "{{- if .Values.<MODULE_NAME>.serviceAccount.create -}}\nkind: ServiceAccount\n"

defaultHorizontalPodAutoscaler ==
    "{{- if .Values.<MODULE_NAME>.autoscaling.enabled }}\nkind: HorizontalPodAutoscaler\n"

defaultNotes ==
    "1. Get the application URL:\n{{- if .Values.<MODULE_NAME>.ingress.enabled }}\n"

defaultHelpers ==
    "{{- define \"<MODULE_NAME>.name\" -}}\napp.kubernetes.io/name: {{ include \"<MODULE_NAME>.name\" . }}-<MODULE_NAME>\n"

defaultTestConnection ==
    "kind: Pod\n  name: \"{{ include \"<MODULE_NAME>.fullname\" . }}-test-connection\"\n"

(***************************************************************************)
(* Placeholder substitution and the file plan.                             *)
(***************************************************************************)
\* only the first marker of the text replaced
transform_FirstOnly(src, module) ==
    IF ~Contains(src, "<MODULE_NAME>") THEN src
    ELSE SubSeq(src, 1, Index(src, "<MODULE_NAME>") - 1) \o module
           \o SubSeq(src, Index(src, "<MODULE_NAME>") + Len("<MODULE_NAME>"), Len(src))

transform(src, module) == ReplaceAll(src, "<MODULE_NAME>", module)

\* the path marker replaced by the prefix of the default module
transformModuleName_Main(src, moduleName) ==
    ReplaceAll(src, moduleNameTemplate, "main_")

\* the path marker replaced by the first character of the module name
transformModuleName_Initial(src, moduleName) ==
    ReplaceAll(src, moduleNameTemplate, SubSeq(moduleName, 1, 1) \o "_")

transformModuleName(src, moduleName) ==
    ReplaceAll(src, moduleNameTemplate, moduleName \o "_")

ManifestFile(p, c) == [path |-> p, content |-> c]

getFiles(cdir, module) ==
    << ManifestFile(Join(cdir, transformModuleName(IngressFileName, module)),
                    transform(defaultIngress, module)),
       ManifestFile(Join(cdir, transformModuleName(DeploymentName, module)),
                    transform(defaultDeployment, module)),
       ManifestFile(Join(cdir, transformModuleName(ServiceName, module)),
                    transform(defaultService, module)),
       ManifestFile(Join(cdir, transformModuleName(ServiceAccountName, module)),
                    transform(defaultServiceAccount, module)),
       ManifestFile(Join(cdir, transformModuleName(HorizontalPodAutoscalerName, module)),
                    transform(defaultHorizontalPodAutoscaler, module)),
       ManifestFile(Join(cdir, transformModuleName(HelpersName, module)),
                    transform(defaultHelpers, module)),
       ManifestFile(Join(cdir, transformModuleName(TestConnectionName, module)),
                    transform(defaultTestConnection, module)) >>

\* values.yaml filled in with the chart name in the place of the module
getBasefiles_Named(cdir, module, chartname) ==
    << ManifestFile(Join(cdir, ValuesfileName), transform(defaultValues, chartname)),
       ManifestFile(Join(cdir, ChartfileName), Sprintf(defaultChartfile, chartname)),
       ManifestFile(Join(cdir, IgnorefileName), defaultIgnore),
       ManifestFile(Join(cdir, transformModuleName(NotesName, module)),
                    transform(defaultNotes, module)) >>

getBasefiles(cdir, module, chartname) ==
    << ManifestFile(Join(cdir, ValuesfileName), transform(defaultValues, module)),
       ManifestFile(Join(cdir, ChartfileName), Sprintf(defaultChartfile, chartname)),
       ManifestFile(Join(cdir, IgnorefileName), defaultIgnore),
       ManifestFile(Join(cdir, transformModuleName(NotesName, module)),
                    transform(defaultNotes, module)) >>

(***************************************************************************)
(* The filesystem (package os).  An entry is a directory or a regular file *)
(* with its bytes; ro says that its write permission is withdrawn: a       *)
(* read-only file cannot be opened for writing, and nothing can be created *)
(* in a read-only directory.                                               *)
(***************************************************************************)
ENOENT == "no such file or directory"
ENOTDIR == "not a directory"
EISDIR == "is a directory"
EACCES == "permission denied"
ErrInvalid == "invalid argument"
ErrNoSuchDirectory == "no such directory"
ErrNotADirectory == "file already exists and is not a directory"
\* the error of loader.Load for a directory that holds no chart
ErrLoad == "Chart.yaml file is missing"

\* errors.Wrap and errors.Wrapf
Wrap(e, msg) == msg \o ": " \o e

DirEntry == [kind |-> "dir", data |-> "", ro |-> FALSE]
FileEntry(data) == [kind |-> "file", data |-> data, ro |-> FALSE]

\* the kernel resolves a relative name against the working directory; the
\* names this program hands to it are cleaned and have no ".." component
Resolve(wd, p) == IF IsAbs(p) THEN p ELSE wd \o sep \o p

\* the directory that holds the entry ap, for an absolute cleaned ap
Parent(ap) ==
    LET i == LastIndex(ap, sep)
    IN  IF i <= 1 THEN sep ELSE SubSeq(ap, 1, i - 1)

\* os.Stat: the error of the call
osStat(f, wd, p) == IF Resolve(wd, p) \in DOMAIN f THEN ErrNil ELSE ENOENT

\* every existing entry taken for a directory
IsDir_Always(f, wd, p) == TRUE

\* FileInfo.IsDir of an existing entry
IsDir(f, wd, p) == f[Resolve(wd, p)].kind = "dir"

\* os.MkdirAll on an absolute path: an existing directory is no error, an
\* existing file is; otherwise the parents are made first.  Directories made
\* before a failure stay.
RECURSIVE MkdirAll(_, _)
MkdirAll(f, ap) ==
    IF ap \in DOMAIN f
    THEN [fs |-> f, err |-> IF f[ap].kind = "dir" THEN ErrNil ELSE ENOTDIR]
    ELSE LET r == MkdirAll(f, Parent(ap))
         IN  IF r.err # ErrNil THEN r
             ELSE IF r.fs[Parent(ap)].ro THEN [fs |-> r.fs, err |-> EACCES]
                  ELSE [fs |-> (ap :> DirEntry) @@ r.fs, err |-> ErrNil]

\* the error of opening ap for writing with O_CREATE
OpenForWrite(f, ap) ==
    IF ap \in DOMAIN f
    THEN IF f[ap].kind = "dir" THEN EISDIR
         ELSE IF f[ap].ro THEN EACCES ELSE ErrNil
    ELSE IF Parent(ap) \notin DOMAIN f THEN ENOENT
         ELSE IF f[Parent(ap)].kind # "dir" THEN ENOTDIR
              ELSE IF f[Parent(ap)].ro THEN EACCES ELSE ErrNil

\* a file opened without truncation and written at its end
WriteFile_Appending(f, ap, content) ==
    IF OpenForWrite(f, ap) # ErrNil THEN [fs |-> f, err |-> OpenForWrite(f, ap)]
    ELSE [fs |-> (ap :> FileEntry((IF ap \in DOMAIN f THEN f[ap].data ELSE "")
                                   \o content)) @@ f,
          err |-> ErrNil]

\* ioutil.WriteFile: create or truncate, then write the content
WriteFile(f, ap, content) ==
    LET e == OpenForWrite(f, ap)
    IN  IF e # ErrNil THEN [fs |-> f, err |-> e]
        ELSE [fs |-> (ap :> FileEntry(content)) @@ f, err |-> ErrNil]

(***************************************************************************)
(* An invocation threads a record w through its steps: the filesystem, the *)
(* lines written to Stderr, the filesystem calls made, and the last error. *)
(***************************************************************************)
\* stderr names the stream the package variable Stderr designates: os.Stderr
\* unless the caller has assigned another writer to it
World(f) ==
    [fs |-> f, out |-> <<>>, ops |-> <<>>, err |-> ErrNil, stderr |-> "os.Stderr"]

\* a filesystem call with the bytes it was given to write
LogData(w, op, p, e, d) ==
    [w EXCEPT !.ops = Append(@, [op |-> op, path |-> p, err |-> e, data |-> d])]

Log(w, op, p, e) == LogData(w, op, p, e, "")

\* a line printed to the stream named stream
Emit(w, stream, kind, p) ==
    [w EXCEPT !.out = Append(@, [stream |-> stream, kind |-> kind, path |-> p])]

\* fmt.Fprintf(Stderr, ...)
Warn(w, kind, p) == Emit(w, w.stderr, kind, p)

\* Val([x \in {e} |-> body]) is body with x naming the value of e: a local
\* variable of the source, assigned once and read by the steps that follow.
Val(f) == f[CHOOSE x \in DOMAIN f : TRUE]

writeFile(w, wd, name, content) ==
    Val([ad \in {Resolve(wd, Dir(name))} |->
    Val([m \in {MkdirAll(w.fs, ad)} |->
    Val([w1 \in {Log([w EXCEPT !.fs = m.fs], "MkdirAll", ad, m.err)} |->
        IF m.err # ErrNil THEN [w1 EXCEPT !.err = m.err]
        ELSE Val([ap \in {Resolve(wd, name)} |->
             Val([r \in {WriteFile(w1.fs, ap, content)} |->
                 [LogData([w1 EXCEPT !.fs = r.fs], "WriteFile", ap, r.err, content)
                    EXCEPT !.err = r.err]])])])])])

\* the existence check without its warning
StatAndWarn_Silent(w, wd, file) ==
    Log(w, "Stat", Resolve(wd, file.path), osStat(w.fs, wd, file.path))

\* one round of the loop of writeFiles: the existence check with its warning
StatAndWarn(w, wd, file) ==
    Val([st \in {osStat(w.fs, wd, file.path)} |->
    Val([w1 \in {Log(w, "Stat", Resolve(wd, file.path), st)} |->
        IF st = ErrNil
        THEN Warn(w1, "WARNING: File already exists. Overwriting.", file.path)
        ELSE w1])])

RECURSIVE writeFilesFrom(_, _, _, _)
writeFilesFrom(w, wd, files, i) ==
    IF i > Len(files) THEN [w EXCEPT !.err = ErrNil]
    ELSE Val([file \in {files[i]} |->
         Val([w2 \in {StatAndWarn(w, wd, file)} |->
         Val([w3 \in {writeFile(w2, wd, file.path, file.content)} |->
             IF w3.err # ErrNil THEN w3
             ELSE writeFilesFrom(w3, wd, files, i + 1)])])])

writeFiles(w, wd, files) == writeFilesFrom(w, wd, files, 1)

\* values.yaml opened with truncation: the fragment replaces the content
appendToValuesFile_Truncating(w, wd, module) ==
    Val([ap \in {Resolve(wd, ValuesfileName)} |->
    Val([r \in {WriteFile(w.fs, ap, transform(defaultValues, module))} |->
        LogData(Log([w EXCEPT !.fs = r.fs], "OpenFile", ap, r.err),
                "Write", ap, r.err, transform(defaultValues, module))])])

\* the open alone: nothing printed, nothing appended
appendToValuesFile_Silent(w, wd, module) ==
    Log(w, "OpenFile", Resolve(wd, ValuesfileName),
        OpenForWrite(w.fs, Resolve(wd, ValuesfileName)))

\* the fragment appended only when values.yaml has no entry of the module yet
appendToValuesFile_Once(w, wd, module) ==
    Val([ap \in {Resolve(wd, ValuesfileName)} |->
    Val([e \in {OpenForWrite(w.fs, ap)} |->
    Val([w1 \in {Log(w, "OpenFile", ap, e)} |->
        IF e # ErrNil
        THEN Warn(Warn(w1, "ERROR: Opening to", ValuesfileName),
                  "ERROR: Writing to", ValuesfileName)
        ELSE Val([old \in {IF ap \in DOMAIN w1.fs THEN w1.fs[ap] ELSE FileEntry("")} |->
             Val([frag \in {IF Contains(old.data, "\n" \o module \o ":\n") THEN ""
                            ELSE transform(defaultValues, module)} |->
                 LogData([w1 EXCEPT !.fs = (ap :> [old EXCEPT !.data = @ \o frag]) @@ w1.fs],
                         "Write", ap, ErrNil, frag)])])])])])

\* the file handle is nil after a failed open, and Write on a nil handle
\* returns ErrInvalid: both error lines are printed then.
appendToValuesFile(w, wd, module) ==
    Val([ap \in {Resolve(wd, ValuesfileName)} |->
    Val([e \in {OpenForWrite(w.fs, ap)} |->
    Val([w1 \in {Log(w, "OpenFile", ap, e)} |->
        IF e # ErrNil
        THEN Warn(Warn(w1, "ERROR: Opening to", ValuesfileName),
                  "ERROR: Writing to", ValuesfileName)
        ELSE Val([old \in {IF ap \in DOMAIN w1.fs THEN w1.fs[ap] ELSE FileEntry("")} |->
             Val([frag \in {transform(defaultValues, module)} |->
                 LogData([w1 EXCEPT !.fs = (ap :> [old EXCEPT !.data = @ \o frag]) @@ w1.fs],
                         "Write", ap, ErrNil, frag)])])])])])

(***************************************************************************)
(* Create.  The result is the returned path and error with the world the   *)
(* invocation leaves behind.                                               *)
(***************************************************************************)
Return(w, p, e) == [path |-> p, err |-> e, fs |-> w.fs, out |-> w.out, ops |-> w.ops]

\* the chart directory removed when charts/ cannot be made
CreateChart_Cleanup(w, wd, chartname, cdir) ==
    Val([module \in {"main"} |->
    Val([w1 \in {writeFiles(w, wd, getBasefiles(cdir, module, chartname))} |->
    Val([w2 \in {writeFiles(w1, wd, getFiles(cdir, module))} |->
    Val([charts \in {Resolve(wd, Join(cdir, ChartsDir))} |->
    Val([m \in {MkdirAll(w2.fs, charts)} |->
    Val([w3 \in {Log([w2 EXCEPT !.fs = m.fs], "MkdirAll", charts, m.err)} |->
        IF m.err # ErrNil
        THEN Return([w3 EXCEPT !.fs = [p \in {q \in DOMAIN w3.fs : ~HasPrefix(q, cdir)}
                                         |-> w3.fs[p]]],
                    cdir, m.err)
        ELSE Return(w3, cdir, ErrNil)])])])])])])

\* the branch taken when no values.yaml is found in the working directory:
\* the module is "main"; the errors of both writeFiles calls are dropped
CreateChart(w, wd, chartname, cdir) ==
    Val([module \in {"main"} |->
    Val([w1 \in {writeFiles(w, wd, getBasefiles(cdir, module, chartname))} |->
    Val([w2 \in {writeFiles(w1, wd, getFiles(cdir, module))} |->
    Val([charts \in {Resolve(wd, Join(cdir, ChartsDir))} |->
    Val([m \in {MkdirAll(w2.fs, charts)} |->
    Val([w3 \in {Log([w2 EXCEPT !.fs = m.fs], "MkdirAll", charts, m.err)} |->
        IF m.err # ErrNil THEN Return(w3, cdir, m.err)
        ELSE Return(w3, cdir, ErrNil)])])])])])])

\* the values.yaml branch doing the work of the other branch
CreateModule_AsChart(w, wd, chartname, cdir) == CreateChart(w, wd, chartname, cdir)

\* the branch taken when values.yaml is found in the working directory: the
\* module is the chart name; the error of writeFiles is dropped
CreateModule(w, wd, chartname, cdir) ==
    Val([module \in {chartname} |->
    Val([w1 \in {writeFiles(w, wd, getFiles("", module))} |->
    Val([w2 \in {appendToValuesFile(w1, wd, module)} |->
        Return(w2, cdir, ErrNil)])])])

\* Create behind the validation of the name: the checks of the base
\* directory and of the chart directory, then the probe for values.yaml
CreateUnder(f, wd, chartname, dir) ==
    Val([path \in {Abs(wd, dir)} |->
    Val([st1 \in {osStat(f, wd, path)} |->
    Val([w1 \in {Log(World(f), "Stat", path, st1)} |->
        IF st1 # ErrNil THEN Return(w1, path, st1)
        ELSE IF ~IsDir(f, wd, path) THEN Return(w1, path, ErrNoSuchDirectory)
        ELSE
    Val([cdir \in {Join(path, chartname)} |->
    Val([st2 \in {osStat(f, wd, cdir)} |->
    Val([w2 \in {Log(w1, "Stat", cdir, st2)} |->
        IF st2 = ErrNil /\ ~IsDir(f, wd, cdir)
        THEN Return(w2, cdir, ErrNotADirectory)
        ELSE
    Val([st3 \in {osStat(f, wd, ValuesfileName)} |->
    Val([w3 \in {Log(w2, "Stat", Resolve(wd, ValuesfileName), st3)} |->
        IF st3 = ErrNil THEN CreateModule(w3, wd, chartname, cdir)
        ELSE CreateChart(w3, wd, chartname, cdir)])])])])])])])])

\* Create without the validation of the name
Create_Unvalidated(f, wd, chartname, dir) == CreateUnder(f, wd, chartname, dir)

Create(f, wd, chartname, dir) ==
    Val([verr \in {validateChartName(chartname)} |->
        IF verr # ErrNil THEN Return(World(f), "", verr)
        ELSE CreateUnder(f, wd, chartname, dir)])

(***************************************************************************)
(* CreateManifest and the manifest command.  Every body of the registry is *)
(* abridged to lines of the source that carry the markers.                 *)
(***************************************************************************)
ingressValues == "\n<MANIFEST_NAME>_ingress:\n  enabled: false\n"

ingress ==
    "{{- if .Values.<MANIFEST_NAME>_ingress.enabled -}}\n{{- $fullName := include \"<CHARTNAME>.fullname\" . -}}\n"

serviceValues == "\n<MANIFEST_NAME>_service:\n  type: ClusterIP\n  port: 80\n"

service ==
    "kind: Service\n  name: {{ include \"<CHARTNAME>.fullname\" . }}-<MANIFEST_NAME>\n"

deploymentValues == "\n<MANIFEST_NAME>_deployment:\n  replicaCount: 1\n"

deployment ==
    "kind: Deployment\n  name: {{ include \"<CHARTNAME>.fullname\" . }}-<MANIFEST_NAME>\n  replicas: {{ .Values.<MANIFEST_NAME>_deployment.replicaCount }}\n"

Manifest(content, values) == [content |-> content, values |-> values]

\* the map manifests indexed with a kind: a key that is not in a Go map
\* yields the zero value of the element type, here two empty strings
manifests(kind) ==
    IF kind = "ingress" THEN Manifest(ingress, ingressValues)
    ELSE IF kind = "service" THEN Manifest(service, serviceValues)
    ELSE IF kind = "deployment" THEN Manifest(deployment, deploymentValues)
    ELSE Manifest("", "")

transformManifestName(src, chartname, manifestName) ==
    ReplaceAll(ReplaceAll(src, "<MANIFEST_NAME>", manifestName), "<CHARTNAME>", chartname)

\* the name a Chart.yaml declares: the text behind "name: " up to the end of
\* the line, empty when there is no such line
ChartNameOf(data) ==
    IF ~Contains(data, "name: ") THEN ""
    ELSE Head(Split(SubSeq(data, Index(data, "name: ") + Len("name: "), Len(data)), "\n"))

\* a loader that takes a directory without Chart.yaml for a chart
LoadDir_Lenient(f, ap) ==
    IF (ap \o sep \o ChartfileName) \in DOMAIN f
         /\ f[ap \o sep \o ChartfileName].kind = "file"
    THEN [name |-> ChartNameOf(f[ap \o sep \o ChartfileName].data), err |-> ErrNil]
    ELSE [name |-> "chart", err |-> ErrNil]

\* loader.Load of a directory: the chart is known by its Chart.yaml
LoadDir(f, ap) ==
    IF (ap \o sep \o ChartfileName) \in DOMAIN f
         /\ f[ap \o sep \o ChartfileName].kind = "file"
    THEN [name |-> ChartNameOf(f[ap \o sep \o ChartfileName].data), err |-> ErrNil]
    ELSE [name |-> "", err |-> ErrLoad]

\* the end of CreateManifest: the append of the values of the kind, its
\* failures printed by the standard logger
appendManifestValues(w, wd, cdir, manifest, name, chartName) ==
    Val([ap \in {Resolve(wd, Join(cdir, ValuesfileName))} |->
    Val([e \in {OpenForWrite(w.fs, ap)} |->
    Val([w1 \in {Log(w, "OpenFile", ap, e)} |->
        IF e # ErrNil
        THEN Emit(Emit(w1, "log", e, ap), "log", ErrInvalid, ap)
        ELSE Val([old \in {IF ap \in DOMAIN w1.fs THEN w1.fs[ap] ELSE FileEntry("")} |->
             Val([frag \in {transformManifestName(manifests(manifest).values,
                                                  chartName, name)} |->
                 LogData([w1 EXCEPT !.fs = (ap :> [old EXCEPT !.data = @ \o frag]) @@ w1.fs],
                         "Write", ap, ErrNil, frag)])])])])])

\* the append made whether or not the manifest file could be written
CreateManifestFiles_AlwaysAppend(w, wd, cdir, manifest, name, chartName) ==
    Val([w1 \in {writeFiles(w, wd,
                   <<ManifestFile(Join(cdir, TemplatesDir \o sep \o name \o "_"
                                               \o manifest \o ".yaml"),
                                  transformManifestName(manifests(manifest).content,
                                                        chartName, name))>>)} |->
        Return(appendManifestValues(w1, wd, cdir, manifest, name, chartName),
               cdir, w1.err)])

\* CreateManifest from the list of files on
CreateManifestFiles(w, wd, cdir, manifest, name, chartName) ==
    Val([w1 \in {writeFiles(w, wd,
                   <<ManifestFile(Join(cdir, TemplatesDir \o sep \o name \o "_"
                                               \o manifest \o ".yaml"),
                                  transformManifestName(manifests(manifest).content,
                                                        chartName, name))>>)} |->
        IF w1.err # ErrNil THEN Return(w1, cdir, w1.err)
        ELSE Return(appendManifestValues(w1, wd, cdir, manifest, name, chartName),
                    cdir, ErrNil)])

\* CreateManifest in the world w, which holds the stream Stderr designates
CreateManifest(w, wd, manifest, name) ==
    Val([path \in {wd} |->
    Val([ld \in {LoadDir(w.fs, path)} |->
    Val([w1 \in {Log(w, "Load", path, ld.err)} |->
        IF ld.err # ErrNil
        THEN Return(w1, "", Wrap(ld.err, "could not load " \o path))
        ELSE IF validateChartName(ld.name) # ErrNil
        THEN Return(w1, "", validateChartName(ld.name))
        ELSE
    Val([st1 \in {osStat(w1.fs, wd, path)} |->
    Val([w2 \in {Log(w1, "Stat", path, st1)} |->
        IF st1 # ErrNil THEN Return(w2, path, st1)
        ELSE IF ~IsDir(w2.fs, wd, path) THEN Return(w2, path, ErrNoSuchDirectory)
        ELSE
    Val([cdir \in {Clean(path)} |->
    Val([st2 \in {osStat(w2.fs, wd, cdir)} |->
    Val([w3 \in {Log(w2, "Stat", cdir, st2)} |->
        IF st2 = ErrNil /\ ~IsDir(w3.fs, wd, cdir)
        THEN Return(w3, cdir, ErrNotADirectory)
        ELSE CreateManifestFiles(w3, wd, cdir, manifest, name,
                                 ld.name)])])])])])])])])

\* manifestOptions.run with the writer out: the line to out, the
\* assignment of out to chartutil.Stderr, the call of CreateManifest
run(f, wd, manifest, name) ==
    CreateManifest([Emit(World(f), "out", "Creating manifest", name)
                      EXCEPT !.stderr = "out"],
                   wd, manifest, name)

(***************************************************************************)
(* Inputs of the model.                                                    *)
(***************************************************************************)
\* arguments (chartname, dir) given to Create: ordinary names and a name made
\* of a dot in the directory /w; a name made of two dots in the directory
\* /w/demo; the name of the regular file /w/f; base directories that are a
\* regular file, missing, or relative; and names the validator rejects
CreateArgs == { <<"demo", "/w">>, <<"cache", "/w">>, <<".", "/w">>, <<"f", "/w">>,
                <<"..", "/w/demo">>,
                <<"demo", "/w/f">>, <<"demo", "/w/x">>, <<"demo", ".">>,
                <<"", "/w">>, <<"a/b", "/w">>, <<"", "/w/x">> }

\* working directories the caller may change to
WorkDirs == {"/w", "/w/demo"}

\* entries whose write permission the environment may withdraw
ChmodPaths == {"/w/demo/Chart.yaml", "/w/demo/values.yaml",
               "/w/demo/templates/cache__service.yaml", "/w/demo/templates"}

(***************************************************************************)
(* The state machine.                                                      *)
(***************************************************************************)
\* a directory /w that holds one regular file
EmptyFs == ("/" :> DirEntry) @@ ("/w" :> DirEntry) @@ ("/w/f" :> FileEntry("x"))

\* the same with the chart /w/demo already scaffolded
ChartFs == Create(EmptyFs, "/w", "demo", "/w").fs

\* the directory /w/demo with a regular file in the place of charts/
ClashFs == ("/w/demo" :> DirEntry) @@ ("/w/demo/charts" :> FileEntry("x")) @@ EmptyFs

Init ==
    /\ fs \in {EmptyFs, ChartFs, ClashFs}
    /\ cwd \in {d \in WorkDirs : d \in DOMAIN fs}
    /\ hist = <<>>
    /\ nenv = 0

\* one invocation of Create(chartname, dir) from the working directory
CreateCall(chartname, dir) ==
    /\ Len(hist) < MaxRuns
    /\ \E r \in {Create(fs, cwd, chartname, dir)} :
           /\ fs' = r.fs
           /\ hist' = Append(hist, [op |-> "Create", name |-> chartname, dir |-> dir,
                                    cwd |-> cwd, pre |-> fs, post |-> r.fs,
                                    path |-> r.path, err |-> r.err,
                                    out |-> r.out, ops |-> r.ops])
    /\ UNCHANGED <<cwd, nenv>>

\* the caller changes its working directory between invocations
Chdir(d) ==
    /\ d \in DOMAIN fs
    /\ fs[d].kind = "dir"
    /\ d # cwd
    /\ cwd' = d
    /\ UNCHANGED <<fs, hist, nenv>>

\* the environment withdraws the write permission of an existing entry
Chmod(p) ==
    /\ nenv < MaxEnv
    /\ p \in DOMAIN fs
    /\ ~fs[p].ro
    /\ fs' = [fs EXCEPT ![p].ro = TRUE]
    /\ nenv' = nenv + 1
    /\ UNCHANGED <<cwd, hist>>

Next ==
    \/ \E a \in CreateArgs : CreateCall(a[1], a[2])
    \/ \E d \in WorkDirs : Chdir(d)
    \/ \E p \in ChmodPaths : Chmod(p)

Spec == Init /\ [][Next]_vars

(***************************************************************************)
(* The validator alone, applied to every name of a bounded set.            *)
(***************************************************************************)
\* characters of the class and characters outside it
NameAlphabet == {"a", "Z", "0", ".", "_", "-", "/", "<"}

RECURSIVE NamesUpTo(_)
NamesUpTo(n) ==
    IF n = 0 THEN {""}
    ELSE LET S == NamesUpTo(n - 1)
         IN  S \cup {s \o c : s \in S, c \in NameAlphabet}

ShortNames == NamesUpTo(MaxNameLen)

\* names around the length limit: maxChartNameLength - 1 letters and a short
\* name behind them
ValidateNames ==
    ShortNames \cup {Repeat("a", maxChartNameLength - 1) \o s : s \in ShortNames}

InitValidate ==
    /\ fs = EmptyFs
    /\ cwd = "/w"
    /\ hist = <<>>
    /\ nenv = 0

ValidateCall(name) ==
    /\ hist' = <<[op |-> "validateChartName", name |-> name,
                  err |-> validateChartName(name)]>>
    /\ UNCHANGED <<fs, cwd, nenv>>

NextValidate == \E name \in ValidateNames : ValidateCall(name)

SpecValidate == InitValidate /\ [][NextValidate]_vars

(***************************************************************************)
(* The file plans alone: getFiles and getBasefiles applied to every valid  *)
(* name of a bounded set, for the chart directory /w/demo given as the     *)
(* new-chart branch gives it and as the values.yaml branch gives it.       *)
(***************************************************************************)
\* the names of ShortNames that the validator accepts
ModuleNames == {n \in ShortNames : validateChartName(n) = ErrNil}

\* the chart directory of the plans, which is the working directory too
PlanDir == "/w/demo"

\* cdir as Create hands it to getFiles: the absolute chart directory in the
\* new-chart branch, the empty string in the values.yaml branch
PlanCdirs == {PlanDir, ""}

InitPlan ==
    /\ fs = EmptyFs
    /\ cwd = PlanDir
    /\ hist = <<>>
    /\ nenv = 0

\* the plans of one invocation for the module name
PlanCall(name, cdir) ==
    /\ Len(hist) < 2
    /\ hist' = Append(hist, [op |-> "getFiles", name |-> name, cdir |-> cdir,
                             files |-> getFiles(cdir, name),
                             base |-> getBasefiles(cdir, name, "demo")])
    /\ UNCHANGED <<fs, cwd, nenv>>

NextPlan == \E name \in ModuleNames, cdir \in PlanCdirs : PlanCall(name, cdir)

SpecPlan == InitPlan /\ [][NextPlan]_vars

(***************************************************************************)
(* CreateFrom.  The loader and the saver are collaborators outside the     *)
(* package: what the loader returns, whether the YAML of the rewritten     *)
(* values parses and what the saver returns are inputs of an invocation.   *)
(* The values of a chart are held as their marshalled YAML text.           *)
(***************************************************************************)
ErrYaml == "yaml: did not find expected key"
ErrSave == "mkdir: permission denied"

\* chart.File
File(name, data) == [Name |-> name, Data |-> data]

\* chart.Chart with the fields CreateFrom reads and writes
Chart(metadata, templates, values, raw) ==
    [Metadata |-> metadata, Templates |-> templates, Values |-> values, Raw |-> raw]

NoChart == Chart([Name |-> ""], <<>>, "", <<>>)

\* one call of a collaborator: the path and the chart it was given, and the
\* error it returned
Call(op, p, c, e) == [op |-> op, path |-> p, chart |-> c, err |-> e]

\* the loop over schart.Templates
updatedTemplates(templates) ==
    [i \in DOMAIN templates |->
        File(templates[i].Name, transform(templates[i].Data, "main"))]

\* every raw file rewritten, whatever its name
updatedRaw_All(raw) ==
    [i \in DOMAIN raw |-> File(raw[i].Name, transform(raw[i].Data, "main"))]

\* the loop over schart.Raw
updatedRaw(raw) ==
    [i \in DOMAIN raw |->
        IF raw[i].Name = ValuesfileName
        THEN File(raw[i].Name, transform(raw[i].Data, "main"))
        ELSE raw[i]]

\* the saver called again after it has failed
CreateFrom_Retry(chartfile, dest, src, loaded, yamlErr, saveErr) ==
    IF loaded.err # ErrNil
    THEN [err |-> Wrap(loaded.err, "could not load " \o src),
          ops |-> <<Call("Load", src, NoChart, loaded.err)>>]
    ELSE IF yamlErr # ErrNil
    THEN [err |-> Wrap(yamlErr, "transforming values file"),
          ops |-> <<Call("Load", src, NoChart, ErrNil)>>]
    ELSE [err |-> saveErr,
          ops |-> <<Call("Load", src, NoChart, ErrNil)>>
                  \o [n \in 1..(IF saveErr = ErrNil THEN 1 ELSE 2) |->
                        Call("SaveDir", dest,
                             Chart(chartfile,
                                   updatedTemplates(loaded.chart.Templates),
                                   transform(loaded.chart.Values, "main"),
                                   updatedRaw(loaded.chart.Raw)),
                             saveErr)]]

\* loaded is what loader.Load(src) returns, yamlErr what yaml.Unmarshal of
\* the rewritten values returns, saveErr what SaveDir returns
CreateFrom(chartfile, dest, src, loaded, yamlErr, saveErr) ==
    IF loaded.err # ErrNil
    THEN [err |-> Wrap(loaded.err, "could not load " \o src),
          ops |-> <<Call("Load", src, NoChart, loaded.err)>>]
    ELSE IF yamlErr # ErrNil
    THEN [err |-> Wrap(yamlErr, "transforming values file"),
          ops |-> <<Call("Load", src, NoChart, ErrNil)>>]
    ELSE [err |-> saveErr,
          ops |-> <<Call("Load", src, NoChart, ErrNil),
                    Call("SaveDir", dest,
                         Chart(chartfile,
                               updatedTemplates(loaded.chart.Templates),
                               transform(loaded.chart.Values, "main"),
                               updatedRaw(loaded.chart.Raw)),
                         saveErr)>>]

\* template bodies of a starter chart: with both markers, with the module
\* marker alone, with none
SourceTemplateData ==
    { "name: {{ include \"<CHARTNAME>.fullname\" . }}-<MODULE_NAME>\n",
      "port: {{ .Values.<MODULE_NAME>.service.port }}\n",
      "kind: Service\n" }

SourceTemplateNames == <<"templates/deployment.yaml", "templates/service.yaml">>

\* the template lists of the source charts: up to MaxTemplates files
SourceTemplates ==
    UNION { [1..n -> SourceTemplateData] : n \in 0..MaxTemplates }

NamedTemplates(datas) ==
    [i \in DOMAIN datas |-> File(SourceTemplateNames[i], datas[i])]

SourceValues ==
    { "<MODULE_NAME>:\n  fullname: <CHARTNAME>\n", "replicaCount: 1\n" }

\* the raw files of a source chart with the values text v
SourceRaw(v) ==
    { <<File(ValuesfileName, v)>>,
      <<File("README.md", "# <CHARTNAME> <MODULE_NAME>\n"), File(ValuesfileName, v)>> }

SourceCharts ==
    UNION { { Chart([Name |-> "starter"], NamedTemplates(t), v, r) :
                t \in SourceTemplates, r \in SourceRaw(v) } : v \in SourceValues }

\* what loader.Load may return
LoadResults ==
    {[chart |-> NoChart, err |-> ErrLoad]}
      \cup {[chart |-> c, err |-> ErrNil] : c \in SourceCharts}

InitClone ==
    /\ fs = EmptyFs
    /\ cwd = "/w"
    /\ hist = <<>>
    /\ nenv = 0

CreateFromCall(name, loaded, yamlErr, saveErr) ==
    /\ hist = <<>>
    /\ \E r \in {CreateFrom([Name |-> name], "/w/" \o name, "/starters/web",
                              loaded, yamlErr, saveErr)} :
           hist' = <<[op |-> "CreateFrom", chartfile |-> [Name |-> name],
                      dest |-> "/w/" \o name, src |-> "/starters/web",
                      loaded |-> loaded, yamlErr |-> yamlErr, saveErr |-> saveErr,
                      err |-> r.err, ops |-> r.ops]>>
    /\ UNCHANGED <<fs, cwd, nenv>>

NextClone ==
    \E name \in {"demo", "x"}, loaded \in LoadResults,
       yamlErr \in {ErrNil, ErrYaml}, saveErr \in {ErrNil, ErrSave} :
        CreateFromCall(name, loaded, yamlErr, saveErr)

SpecClone == InitClone /\ [][NextClone]_vars

(***************************************************************************)
(* The manifest command, run in a working directory that holds a chart or  *)
(* none.                                                                   *)
(***************************************************************************)
\* arguments (kind, name) of the command: the kinds of the registry and one
\* that is not in it; an ordinary name, a name that is a marker, and a name
\* with a parent directory in it
ManifestArgs == { <<"ingress", "web">>, <<"service", "web">>, <<"deployment", "web">>,
                  <<"configmap", "web">>, <<"service", "<CHARTNAME>">>,
                  <<"ingress", "../web">> }

\* entries whose write permission the environment may withdraw
ManifestChmodPaths == {"/w/demo/values.yaml", "/w/demo/templates",
                       "/w/demo/templates/web_ingress.yaml"}

\* the chart /w/demo with a name in its Chart.yaml that is no chart name
MisnamedFs ==
    ("/w/demo/Chart.yaml" :> FileEntry("apiVersion: v2\nname: my chart\n")) @@ ChartFs

\* the chart /w/demo with a values.yaml that cannot be written
LockedValuesFs ==
    [ChartFs EXCEPT !["/w/demo/values.yaml"].ro = TRUE]

InitManifest ==
    /\ fs \in {EmptyFs, ChartFs, MisnamedFs, LockedValuesFs}
    /\ cwd \in {d \in WorkDirs : d \in DOMAIN fs}
    /\ hist = <<>>
    /\ nenv = 0

\* one run of the command: helm manifest KIND NAME
ManifestCall(kind, name) ==
    /\ Len(hist) < MaxRuns
    /\ \E r \in {run(fs, cwd, kind, name)} :
           /\ fs' = r.fs
           /\ hist' = Append(hist, [op |-> "manifest", kind |-> kind, name |-> name,
                                    cwd |-> cwd, pre |-> fs, post |-> r.fs,
                                    path |-> r.path, err |-> r.err,
                                    out |-> r.out, ops |-> r.ops])
    /\ UNCHANGED <<cwd, nenv>>

NextManifest ==
    \/ \E a \in ManifestArgs : ManifestCall(a[1], a[2])
    \/ \E d \in WorkDirs : Chdir(d)
    \/ \E p \in ManifestChmodPaths : Chmod(p)

SpecManifest == InitManifest /\ [][NextManifest]_vars

(***************************************************************************)
(* Two invocations of Create running at the same time on one filesystem.   *)
(* Every filesystem call of an invocation is a step of its own, and the    *)
(* steps of the two interleave freely: there is no lock in the package.    *)
(* hist holds the two invocations in flight: the arguments, the position   *)
(* pc in the code, the local variables and the latest filesystem call.     *)
(* ioutil.WriteFile is its two calls: the open that creates or truncates   *)
(* the file, and the write of the bytes at offset 0.                       *)
(***************************************************************************)
\* the decision to warn taken when the file is opened
Warned_AtOpen(st, existsAtOpen) == existsAtOpen

\* writeFiles: the warning is printed when the check has found the file
Warned(st, existsAtOpen) == st = ErrNil

\* the bytes put behind the bytes the file holds
WriteAt0_Append(old, content) == old \o content

\* a write of content at offset 0 of a file that holds old
WriteAt0(old, content) ==
    IF Len(old) > Len(content)
    THEN content \o SubSeq(old, Len(content) + 1, Len(old))
    ELSE content

NoCall == [op |-> "", path |-> "", existed |-> FALSE, old |-> ""]

\* an invocation Create(name, dir) about to start in the working directory wd
\* on the filesystem f; alone is the filesystem it leaves when it runs from
\* f with no other invocation beside it
Start(name, dir, wd, f) ==
    [op |-> "Create", name |-> name, dir |-> dir, cwd |-> wd, pre |-> f,
     alone |-> Create(f, wd, name, dir).fs,
     pc |-> "StatPath", cdir |-> "", mode |-> "", plans |-> <<>>, li |-> 0, i |-> 0,
     st |-> ErrNil, warned |-> FALSE, failed |-> FALSE, overwrote |-> FALSE,
     last |-> NoCall,
     path |-> "", err |-> ErrNil]

\* the lists of files handed to writeFiles, in order, by the branch mode of
\* an invocation with the chart directory cdir and the chart name name
Plans(mode, cdir, name) ==
    IF mode = "chart"
    THEN <<getBasefiles(cdir, "main", name), getFiles(cdir, "main")>>
    ELSE <<getFiles("", name)>>

\* the file of the round of writeFiles that p is in
RaceFile(p) == p.plans[p.li][p.i]

Finish(p, path, e) == [p EXCEPT !.pc = "Done", !.path = path, !.err = e]

\* writeFiles has returned: the next list, or the end of the branch
AfterList(p) ==
    IF p.mode = "chart" /\ p.li = 1 THEN [p EXCEPT !.li = 2, !.i = 1, !.pc = "Stat"]
    ELSE IF p.mode = "chart" THEN [p EXCEPT !.pc = "MkdirCharts"]
    ELSE [p EXCEPT !.pc = "AppendOpen"]

\* a round of writeFiles is over: the next file, or the return
AfterFile(p) ==
    IF p.i < Len(p.plans[p.li]) THEN [p EXCEPT !.i = @ + 1, !.pc = "Stat"]
    ELSE AfterList(p)

\* the checks of Create up to the probe for values.yaml
StepChecks(p, f) ==
    CASE p.pc = "StatPath" ->
           IF validateChartName(p.name) # ErrNil
           THEN [p |-> Finish(p, "", validateChartName(p.name)), fs |-> f]
           ELSE IF osStat(f, p.cwd, Abs(p.cwd, p.dir)) # ErrNil
           THEN [p |-> Finish([p EXCEPT !.failed = TRUE], Abs(p.cwd, p.dir),
                              osStat(f, p.cwd, Abs(p.cwd, p.dir))), fs |-> f]
           ELSE IF ~IsDir(f, p.cwd, Abs(p.cwd, p.dir))
           THEN [p |-> Finish(p, Abs(p.cwd, p.dir), ErrNoSuchDirectory), fs |-> f]
           ELSE [p |-> [p EXCEPT !.pc = "StatCdir",
                                 !.cdir = Join(Abs(p.cwd, p.dir), p.name)],
                 fs |-> f]
      [] p.pc = "StatCdir" ->
           IF osStat(f, p.cwd, p.cdir) = ErrNil /\ ~IsDir(f, p.cwd, p.cdir)
           THEN [p |-> Finish(p, p.cdir, ErrNotADirectory), fs |-> f]
           ELSE [p |-> [p EXCEPT !.pc = "StatValues"], fs |-> f]
      [] p.pc = "StatValues" ->
           Val([mode \in {IF osStat(f, p.cwd, ValuesfileName) = ErrNil
                          THEN "module" ELSE "chart"} |->
               [p |-> [p EXCEPT !.pc = "Stat", !.li = 1, !.i = 1, !.mode = mode,
                                !.plans = Plans(mode, p.cdir, p.name)],
                fs |-> f]])

\* one round of writeFiles in four calls: os.Stat, os.MkdirAll, and the open
\* and the write of ioutil.WriteFile
StepWriteFiles(p, f) ==
    CASE p.pc = "Stat" ->
           [p |-> [p EXCEPT !.pc = "MkdirAll",
                            !.st = osStat(f, p.cwd, RaceFile(p).path),
                            !.last = [NoCall EXCEPT !.op = "Stat",
                                        !.path = Resolve(p.cwd, RaceFile(p).path)]],
            fs |-> f]
      [] p.pc = "MkdirAll" ->
           Val([m \in {MkdirAll(f, Resolve(p.cwd, Dir(RaceFile(p).path)))} |->
               IF m.err # ErrNil
               THEN [p |-> AfterList([p EXCEPT !.failed = TRUE]), fs |-> m.fs]
               ELSE [p |-> [p EXCEPT !.pc = "Open"], fs |-> m.fs]])
      [] p.pc = "Open" ->
           Val([ap \in {Resolve(p.cwd, RaceFile(p).path)} |->
               IF OpenForWrite(f, ap) # ErrNil
               THEN [p |-> AfterList([p EXCEPT !.failed = TRUE]), fs |-> f]
               ELSE [p |-> [p EXCEPT !.pc = "Write",
                                     !.warned = Warned(p.st, ap \in DOMAIN f),
                                     !.overwrote = @ \/ (ap \in DOMAIN f
                                                          /\ ap \notin DOMAIN p.pre),
                                     !.last = [op |-> "Open", path |-> ap,
                                               existed |-> ap \in DOMAIN f,
                                               old |-> IF ap \in DOMAIN f
                                                       THEN f[ap].data ELSE ""]],
                     fs |-> (ap :> FileEntry("")) @@ f]])
      [] p.pc = "Write" ->
           Val([ap \in {Resolve(p.cwd, RaceFile(p).path)} |->
               [p |-> AfterFile([p EXCEPT !.last = [NoCall EXCEPT !.op = "Write",
                                                               !.path = ap]]),
                fs |-> (ap :> FileEntry(WriteAt0(f[ap].data, RaceFile(p).content)))
                         @@ f]])

\* the end of either branch: os.MkdirAll of charts/, or the open and the
\* write of appendToValuesFile (O_APPEND puts the bytes at the end)
StepEnd(p, f) ==
    CASE p.pc = "MkdirCharts" ->
           Val([m \in {MkdirAll(f, Resolve(p.cwd, Join(p.cdir, ChartsDir)))} |->
               [p |-> Finish([p EXCEPT !.failed = @ \/ m.err # ErrNil], p.cdir, m.err),
                fs |-> m.fs]])
      [] p.pc = "AppendOpen" ->
           Val([ap \in {Resolve(p.cwd, ValuesfileName)} |->
               IF OpenForWrite(f, ap) # ErrNil
               THEN [p |-> Finish([p EXCEPT !.failed = TRUE], p.cdir, ErrNil), fs |-> f]
               ELSE [p |-> [p EXCEPT !.pc = "AppendWrite"],
                     fs |-> IF ap \in DOMAIN f THEN f ELSE (ap :> FileEntry("")) @@ f]])
      [] p.pc = "AppendWrite" ->
           Val([ap \in {Resolve(p.cwd, ValuesfileName)} |->
               [p |-> Finish(p, p.cdir, ErrNil),
                fs |-> (ap :> [f[ap] EXCEPT !.data = @ \o transform(defaultValues, p.name)])
                         @@ f]])

\* overwrote says that p has opened, and so truncated, a file that was not
\* there when p started: a file of the other invocation.
\* the next filesystem call of the invocation p on the filesystem f
Step(p, f) ==
    IF p.pc \in {"StatPath", "StatCdir", "StatValues"} THEN StepChecks(p, f)
    ELSE IF p.pc \in {"Stat", "MkdirAll", "Open", "Write"} THEN StepWriteFiles(p, f)
    ELSE StepEnd(p, f)

\* an empty directory /w/demo
BareFs == ("/w/demo" :> DirEntry) @@ EmptyFs

\* arguments and working directory of the second invocation; the first is
\* Create("demo", "/w") in /w
RaceArgs == { <<"demo", "/w", "/w">>, <<"demo", "/w", "/w/demo">>,
              <<"web", "/w", "/w/demo">> }

InitRace ==
    /\ fs \in {BareFs, ChartFs}
    /\ cwd = "/w"
    /\ nenv = 0
    /\ \E a \in RaceArgs :
           hist = <<Start("demo", "/w", "/w", fs), Start(a[1], a[2], a[3], fs)>>

\* the invocation n makes its next filesystem call
RaceStep(n) ==
    /\ hist[n].pc # "Done"
    /\ \E r \in {Step(hist[n], fs)} :
           /\ fs' = r.fs
           /\ hist' = [hist EXCEPT ![n] = r.p]
    /\ UNCHANGED <<cwd, nenv>>

NextRace == \E n \in {1, 2} : RaceStep(n)

SpecRace == InitRace /\ [][NextRace]_vars

(***************************************************************************)
(* Reading an invocation record h of hist.                                 *)
(***************************************************************************)
\* the positions in the call log of h of the calls of the given kinds
OpsOf(h, kinds) == {k \in DOMAIN h.ops : h.ops[k].op \in kinds}

WriteKinds == {"MkdirAll", "WriteFile", "OpenFile", "Write"}

\* no call that creates, writes or appends has failed
WritesSucceed(h) == \A k \in OpsOf(h, WriteKinds) : h.ops[k].err = ErrNil

IsFileIn(f, p) == p \in DOMAIN f /\ f[p].kind = "file"
IsDirIn(f, p) == p \in DOMAIN f /\ f[p].kind = "dir"

\* the absolute base directory and the chart directory of the invocation
BaseOf(h) == Abs(h.cwd, h.dir)
CdirOf(h) == Join(BaseOf(h), h.name)

NameAccepted(h) ==
    /\ Len(h.name) >= 1
    /\ Len(h.name) <= 250
    /\ \A k \in 1..Len(h.name) : CharAt(h.name, k) \in chartNameClass

\* the name is accepted, the base is a directory and no regular file is in
\* the place of the chart directory
PassesChecks(h) ==
    /\ NameAccepted(h)
    /\ IsDirIn(h.pre, BaseOf(h))
    /\ ~IsFileIn(h.pre, CdirOf(h))

\* a values.yaml is in the working directory when the invocation starts
ValuesInCwd(h) == (h.cwd \o "/values.yaml") \in DOMAIN h.pre

AddModuleRun(h) == PassesChecks(h) /\ ValuesInCwd(h)
NewUnitRun(h) == PassesChecks(h) /\ ~ValuesInCwd(h)

\* the invocation has opened values.yaml for appending or appended to it
Appends(h) == OpsOf(h, {"OpenFile", "Write"}) # {}

BaseFileNames == {"Chart.yaml", "values.yaml", ".helmignore", "NOTES.txt"}

\* the invocation has written a base file or made the charts directory
WritesBase(h) ==
    \/ \E k \in OpsOf(h, {"WriteFile"}) : Base(h.ops[k].path) \in BaseFileNames
    \/ \E k \in OpsOf(h, {"MkdirAll"}) : Base(h.ops[k].path) = "charts"

(***************************************************************************)
(* Properties of the validator and of the mode decision.                   *)
(***************************************************************************)
\* C1: validateChartName returns no error exactly for the names of 1 to 250
\* characters that are all letters, digits, '.', '_' or '-'; an empty or
\* too long name gets the length error even when it also holds a character
\* outside the class, every other rejected name the invalid-characters error;
\* the filesystem and the working directory are as before the call.
C1_ValidatorDecides ==
    /\ fs = EmptyFs
    /\ cwd = "/w"
    /\ \A i \in DOMAIN hist :
           /\ (hist[i].err = ErrNil) <=> NameAccepted(hist[i])
           /\ (Len(hist[i].name) = 0 \/ Len(hist[i].name) > 250)
                  => hist[i].err = ErrNameLength
           /\ (~NameAccepted(hist[i]) /\ Len(hist[i].name) \in 1..250)
                  => hist[i].err = ErrNameChars

\* a name of 251 characters with a '/' in it has got the length error
C1_Witness ==
    \E i \in DOMAIN hist :
        /\ Len(hist[i].name) = 251
        /\ Contains(hist[i].name, "/")
        /\ hist[i].err = ErrNameLength

\* C2: a Create given a name the validator rejects returns the validator's
\* error and the empty path, and has made no filesystem call at all.
C2_RejectedNameTouchesNothing ==
    \A i \in DOMAIN hist :
        ~NameAccepted(hist[i]) =>
            /\ hist[i].err \in {ErrNameLength, ErrNameChars}
            /\ hist[i].err = validateChartName(hist[i].name)
            /\ hist[i].path = ""
            /\ hist[i].ops = <<>>
            /\ hist[i].out = <<>>
            /\ hist[i].post = hist[i].pre

\* the name "a/b" has been rejected in a base directory that exists
C2_Witness ==
    \E i \in DOMAIN hist :
        /\ hist[i].name = "a/b"
        /\ IsDirIn(hist[i].pre, BaseOf(hist[i]))
        /\ hist[i].err = ErrNameChars
        /\ hist[i].ops = <<>>

\* C3: an invocation that passes the name and path checks appends to
\* values.yaml exactly when a values.yaml is in the working directory at its
\* start, and writes base files or makes charts/ exactly when none is; so it
\* never does both.
C3_ExactlyOneMode ==
    \A i \in DOMAIN hist :
        PassesChecks(hist[i]) =>
            /\ ValuesInCwd(hist[i]) <=> Appends(hist[i])
            /\ ~ValuesInCwd(hist[i]) <=> WritesBase(hist[i])

\* a new-unit invocation followed by an add-module invocation
C3_Witness ==
    /\ Len(hist) = 2
    /\ NewUnitRun(hist[1]) /\ WritesBase(hist[1]) /\ ~Appends(hist[1])
    /\ AddModuleRun(hist[2]) /\ Appends(hist[2]) /\ ~WritesBase(hist[2])

(***************************************************************************)
(* Properties of what is written.                                          *)
(***************************************************************************)
\* the paths the invocation has handed to WriteFile
WrittenPaths(h) == {h.ops[k].path : k \in OpsOf(h, {"WriteFile"})}

\* the entries the invocation has added to the filesystem
Created(h) == DOMAIN h.post \ DOMAIN h.pre

\* the tree of a chart directory c with the default module in its file names
MainTree(c) ==
    { c,
      c \o "/Chart.yaml", c \o "/values.yaml", c \o "/.helmignore",
      c \o "/templates",
      c \o "/templates/main_ingress.yaml",
      c \o "/templates/main_deployment.yaml",
      c \o "/templates/main_service.yaml",
      c \o "/templates/main_serviceaccount.yaml",
      c \o "/templates/main_hpa.yaml",
      c \o "/templates/NOTES.txt",
      c \o "/templates/_main_helpers.tpl",
      c \o "/templates/tests",
      c \o "/templates/tests/main_test-connection.yaml",
      c \o "/charts" }

MainTreeDirs(c) ==
    {c, c \o "/templates", c \o "/templates/tests", c \o "/charts"}

\* C4: a new-unit invocation on a parent without an entry of the chart's
\* name, with every write succeeding, adds exactly the chart directory with
\* Chart.yaml, values.yaml, .helmignore, templates/main_ingress.yaml,
\* main_deployment.yaml, main_service.yaml, main_serviceaccount.yaml,
\* main_hpa.yaml, NOTES.txt, _main_helpers.tpl,
\* templates/tests/main_test-connection.yaml and an empty charts/.
C4_NewUnitTree ==
    \A i \in DOMAIN hist :
        ( /\ NewUnitRun(hist[i])
          /\ CdirOf(hist[i]) \notin DOMAIN hist[i].pre
          /\ WritesSucceed(hist[i]) ) =>
            /\ Created(hist[i]) = MainTree(CdirOf(hist[i]))
            /\ \A p \in Created(hist[i]) :
                   IsDirIn(hist[i].post, p) <=> p \in MainTreeDirs(CdirOf(hist[i]))

\* the keys of the lines of a YAML text that start in the first column
TopLevelKeys(text) ==
    { SubSeq(l, 1, Index(l, ":") - 1) :
        l \in { ln \in {Split(text, "\n")[k] : k \in DOMAIN Split(text, "\n")} :
                  /\ ln # ""
                  /\ CharAt(ln, 1) \notin {" ", "#", "-"}
                  /\ Contains(ln, ":") } }

\* seven files written, each once, all below templates/ of the working
\* directory, and one fragment appended to values.yaml of the working
\* directory: not empty, with the name as its only top-level key
SevenAndFragment(h) ==
    /\ Cardinality(OpsOf(h, {"WriteFile"})) = 7
    /\ Cardinality(WrittenPaths(h)) = 7
    /\ \A p \in WrittenPaths(h) :
           /\ HasPrefix(p, h.cwd \o "/templates/")
           /\ IsFileIn(h.post, p)
    /\ Created(h) \subseteq
           WrittenPaths(h) \cup {h.cwd \o "/templates", h.cwd \o "/templates/tests"}
    /\ Cardinality(OpsOf(h, {"Write"})) = 1
    /\ \A k \in OpsOf(h, {"Write"}) :
           /\ h.ops[k].path = h.cwd \o "/values.yaml"
           /\ h.ops[k].data # ""
           /\ TopLevelKeys(h.ops[k].data) = {h.name}
           /\ h.post[h.ops[k].path].data
                 = h.pre[h.ops[k].path].data \o h.ops[k].data

\* C5 as stated: an add-module invocation with every write succeeding writes
\* exactly seven files below templates/ of the working directory, each with
\* a file name that starts with the name and '_', and appends a non-empty
\* fragment whose top-level key is the name.
C5_AllNamesPrefixed ==
    \A i \in DOMAIN hist :
        (AddModuleRun(hist[i]) /\ WritesSucceed(hist[i])) =>
            /\ SevenAndFragment(hist[i])
            /\ \A p \in WrittenPaths(hist[i]) :
                   HasPrefix(Base(p), hist[i].name \o "_")

\* C5, amended: an add-module invocation with every write succeeding writes
\* exactly seven files below templates/ of the working directory; six file
\* names start with the name and '_', the seventh, the helpers file, starts
\* with '_', the name and '_'; it appends a non-empty fragment whose
\* top-level key is the name.
C5_SixPrefixedOneHelpers ==
    \A i \in DOMAIN hist :
        (AddModuleRun(hist[i]) /\ WritesSucceed(hist[i])) =>
            /\ SevenAndFragment(hist[i])
            /\ Cardinality({p \in WrittenPaths(hist[i]) :
                   HasPrefix(Base(p), hist[i].name \o "_")}) = 6
            /\ Cardinality({p \in WrittenPaths(hist[i]) :
                   /\ HasPrefix(Base(p), "_" \o hist[i].name \o "_")
                   /\ Contains(Base(p), "helpers.tpl")}) = 1

\* the module cache has been added in the chart directory /w/demo
C5_Witness ==
    \E i \in DOMAIN hist :
        /\ AddModuleRun(hist[i]) /\ WritesSucceed(hist[i])
        /\ hist[i].name = "cache"
        /\ hist[i].cwd = "/w/demo"
        /\ Cardinality(WrittenPaths(hist[i])) = 7
        /\ Contains(hist[i].post["/w/demo/values.yaml"].data, "cache:")

\* C6: whatever name the validator accepts, no content Create writes or
\* appends holds the marker <MODULE_NAME>, and no path it writes holds the
\* marker <MODULE>_.
C6_NoMarkerLeft ==
    \A i \in DOMAIN hist :
        NameAccepted(hist[i]) =>
            \A k \in OpsOf(hist[i], {"WriteFile", "Write"}) :
                /\ ~Contains(hist[i].ops[k].data, "<MODULE_NAME>")
                /\ ~Contains(hist[i].ops[k].path, "<MODULE>_")

\* both modes have run and written, the add-module one for the name cache
C6_Witness ==
    /\ Len(hist) = 2
    /\ NewUnitRun(hist[1]) /\ Cardinality(WrittenPaths(hist[1])) = 11
    /\ AddModuleRun(hist[2]) /\ hist[2].name = "cache"
    /\ Cardinality(WrittenPaths(hist[2])) = 7
    /\ OpsOf(hist[2], {"Write"}) # {}

(***************************************************************************)
(* Properties of repeated and of failing invocations.                      *)
(***************************************************************************)
OverwriteWarning == "WARNING: File already exists. Overwriting."

\* the positions in the output of h of the overwrite warnings for the path p
WarningsFor(h, p) ==
    {k \in DOMAIN h.out : h.out[k].kind = OverwriteWarning /\ h.out[k].path = p}

\* the regular files below the directory c in the filesystem f
FilesUnder(f, c) == {p \in DOMAIN f : f[p].kind = "file" /\ HasPrefix(p, c \o "/")}

\* the invocations i and i + 1 are new-unit invocations with the same name
\* and dir from the same working directory, and nothing has changed the
\* filesystem between them
SameTwice(i) ==
    /\ i + 1 \in DOMAIN hist
    /\ NewUnitRun(hist[i]) /\ NewUnitRun(hist[i + 1])
    /\ hist[i + 1].name = hist[i].name
    /\ hist[i + 1].dir = hist[i].dir
    /\ hist[i + 1].cwd = hist[i].cwd
    /\ hist[i + 1].pre = hist[i].post

\* the second invocation leaves every file as the first has left it
SameContents(h1, h2) ==
    /\ DOMAIN h2.post = DOMAIN h1.post
    /\ \A p \in DOMAIN h1.post : h2.post[p].data = h1.post[p].data

C8_StopsAtFirstFailure ==
    \A i \in DOMAIN hist :
        \A k \in OpsOf(hist[i], {"MkdirAll", "WriteFile"}) :
            hist[i].ops[k].err # ErrNil =>
                /\ \A k2 \in OpsOf(hist[i], WriteKinds) : k2 <= k
                /\ hist[i].err = hist[i].ops[k].err

\* C9: an add-module invocation that cannot open values.yaml for appending
\* leaves every manifest file it has written on disk with the content
\* written, prints the failure to the diagnostic stream, and returns no
\* error.
C9_AppendFailureReported ==
    \A i \in DOMAIN hist :
        ( /\ AddModuleRun(hist[i])
          /\ \E k \in OpsOf(hist[i], {"OpenFile"}) : hist[i].ops[k].err # ErrNil ) =>
            /\ hist[i].err = ErrNil
            /\ \E k \in DOMAIN hist[i].out :
                   /\ hist[i].out[k].kind = "ERROR: Opening to"
                   /\ hist[i].out[k].path = "values.yaml"
            /\ \A k \in OpsOf(hist[i], {"WriteFile"}) :
                   hist[i].ops[k].err = ErrNil =>
                       /\ IsFileIn(hist[i].post, hist[i].ops[k].path)
                       /\ hist[i].post[hist[i].ops[k].path].data = hist[i].ops[k].data
            /\ hist[i].post[hist[i].cwd \o "/values.yaml"]
                 = hist[i].pre[hist[i].cwd \o "/values.yaml"]

\* the module cache has been added with a read-only values.yaml: seven
\* manifests written, the open refused
C9_Witness ==
    \E i \in DOMAIN hist :
        /\ AddModuleRun(hist[i])
        /\ hist[i].name = "cache"
        /\ Cardinality(WrittenPaths(hist[i])) = 7
        /\ \A k \in OpsOf(hist[i], {"WriteFile"}) : hist[i].ops[k].err = ErrNil
        /\ \E k \in OpsOf(hist[i], {"OpenFile"}) : hist[i].ops[k].err = EACCES

\* the base directory is missing or no directory, or a regular file has the
\* place of the chart directory
PathCheckFails(h) ==
    /\ NameAccepted(h)
    /\ \/ BaseOf(h) \notin DOMAIN h.pre
       \/ IsFileIn(h.pre, BaseOf(h))
       \/ IsFileIn(h.pre, CdirOf(h))

\* C10: when dir does not exist, is not a directory, or dir/name exists and
\* is no directory, Create returns an error and has created, written and
\* appended nothing, with or without a values.yaml in the working directory.
C10_PathCheckFailureWritesNothing ==
    \A i \in DOMAIN hist :
        PathCheckFails(hist[i]) =>
            /\ hist[i].err # ErrNil
            /\ hist[i].post = hist[i].pre
            /\ OpsOf(hist[i], WriteKinds) = {}
            /\ hist[i].out = <<>>

\* from a working directory with a values.yaml: one invocation whose dir is
\* missing or a regular file, and one whose dir/name is a regular file
C10_Witness ==
    /\ Len(hist) = 2
    /\ ValuesInCwd(hist[1]) /\ ValuesInCwd(hist[2])
    /\ PathCheckFails(hist[1]) /\ ~IsDirIn(hist[1].pre, BaseOf(hist[1]))
    /\ PathCheckFails(hist[2]) /\ IsFileIn(hist[2].pre, CdirOf(hist[2]))
    /\ hist[1].err # ErrNil /\ hist[2].err # ErrNil

(***************************************************************************)
(* Properties of the returned path and of the written paths.               *)
(***************************************************************************)
\* C12: a successful Create returns the root of what it has produced: the
\* absolute chart directory dir/name in new-unit mode, the templates path of
\* the working directory in add-module mode.
C12_ReturnsProducedRoot ==
    \A i \in DOMAIN hist :
        (PassesChecks(hist[i]) /\ hist[i].err = ErrNil) =>
            /\ NewUnitRun(hist[i]) =>
                   /\ IsAbs(hist[i].path)
                   /\ hist[i].path = CdirOf(hist[i])
            /\ AddModuleRun(hist[i]) =>
                   hist[i].path \in {"templates", hist[i].cwd \o "/templates"}

\* C13: whatever name the validator accepts, every path a new-unit
\* invocation writes is below the child of dir that has the name, and every
\* manifest path an add-module invocation writes is below templates/ of the
\* working directory.
C13_WritesBelowNamedChild ==
    \A i \in DOMAIN hist :
        /\ NewUnitRun(hist[i]) =>
               \A p \in WrittenPaths(hist[i]) :
                   HasPrefix(p, BaseOf(hist[i]) \o "/" \o hist[i].name \o "/")
        /\ AddModuleRun(hist[i]) =>
               \A p \in WrittenPaths(hist[i]) :
                   HasPrefix(p, hist[i].cwd \o "/templates/")

\* a call of h that creates, writes or appends has failed
SomeWriteFails(h) == \E k \in OpsOf(h, WriteKinds) : h.ops[k].err # ErrNil

ChartfileOrDirFails(h) ==
    \/ \E k \in OpsOf(h, {"WriteFile"}) :
           Base(h.ops[k].path) = "Chart.yaml" /\ h.ops[k].err # ErrNil
    \/ \E k \in OpsOf(h, {"MkdirAll"}) : h.ops[k].err # ErrNil

\* C15: when Chart.yaml or a directory cannot be created, a new-unit Create
\* returns an error and removes the chart directory, so that none is left
\* behind.
C15_FailureRemovesChartDir ==
    \A i \in DOMAIN hist :
        (NewUnitRun(hist[i]) /\ ChartfileOrDirFails(hist[i])) =>
            /\ hist[i].err # ErrNil
            /\ CdirOf(hist[i]) \notin DOMAIN hist[i].post

\* the names of the entries of a chart that belong to the chart as a whole
ChartLevelNames == {"Chart.yaml", ".helmignore", "NOTES.txt", "charts"}

\* C20: an add-module invocation neither creates nor modifies a Chart.yaml,
\* a .helmignore, a NOTES.txt or a charts directory, and what values.yaml of
\* the working directory held before is an unchanged prefix of what it holds
\* after.
C20_AddModuleFrame ==
    \A i \in DOMAIN hist :
        AddModuleRun(hist[i]) =>
            /\ \A p \in DOMAIN hist[i].pre \cup DOMAIN hist[i].post :
                   Base(p) \in ChartLevelNames =>
                       /\ p \in DOMAIN hist[i].pre
                       /\ p \in DOMAIN hist[i].post
                       /\ hist[i].post[p] = hist[i].pre[p]
            /\ IsFileIn(hist[i].pre, hist[i].cwd \o "/values.yaml") =>
                   /\ IsFileIn(hist[i].post, hist[i].cwd \o "/values.yaml")
                   /\ HasPrefix(hist[i].post[hist[i].cwd \o "/values.yaml"].data,
                                hist[i].pre[hist[i].cwd \o "/values.yaml"].data)

\* the module cache has been added to the chart /w/demo: values.yaml has
\* grown, and Chart.yaml, .helmignore, NOTES.txt and charts/ are there
C20_Witness ==
    \E i \in DOMAIN hist :
        /\ AddModuleRun(hist[i])
        /\ hist[i].name = "cache"
        /\ hist[i].cwd = "/w/demo"
        /\ {"/w/demo/Chart.yaml", "/w/demo/.helmignore", "/w/demo/templates/NOTES.txt",
            "/w/demo/charts"} \subseteq DOMAIN hist[i].pre
        /\ Len(hist[i].post["/w/demo/values.yaml"].data)
             > Len(hist[i].pre["/w/demo/values.yaml"].data)
        /\ Len(hist[i].pre["/w/demo/values.yaml"].data) > 0

(***************************************************************************)
(* Properties of the manifest command.                                     *)
(***************************************************************************)
\* C16: in a run of the manifest command no overwrite warning goes to the
\* stream that gets the line "Creating manifest".
C16_WarningsOffPrimaryStream ==
    \A i \in DOMAIN hist :
        \A j \in DOMAIN hist[i].out, k \in DOMAIN hist[i].out :
            ( /\ hist[i].out[j].kind = "Creating manifest"
              /\ hist[i].out[k].kind = OverwriteWarning ) =>
                hist[i].out[k].stream # hist[i].out[j].stream

RegistryKinds == {"ingress", "service", "deployment"}

\* C17: CreateManifest with a kind that is no key of the registry fails: it
\* returns an error, writes no file and appends nothing.
C17_UnknownKindFails ==
    \A i \in DOMAIN hist :
        hist[i].kind \notin RegistryKinds =>
            /\ hist[i].err # ErrNil
            /\ OpsOf(hist[i], {"WriteFile", "Write"}) = {}
            /\ hist[i].post = hist[i].pre

\* the two replacements of transformManifestName in the opposite order
ChartNameFirst(src, chartname, manifestName) ==
    ReplaceAll(ReplaceAll(src, "<CHARTNAME>", chartname), "<MANIFEST_NAME>", manifestName)

\* C18: whatever kind and name the command is given, the bytes written to
\* the manifest file and the bytes appended to values.yaml are the bytes
\* that the replacements made in the opposite order yield.
C18_OrderIndependent ==
    \A i \in DOMAIN hist :
        /\ \A k \in OpsOf(hist[i], {"WriteFile"}) :
               hist[i].ops[k].data =
                   ChartNameFirst(manifests(hist[i].kind).content,
                                  LoadDir(hist[i].pre, hist[i].cwd).name, hist[i].name)
        /\ \A k \in OpsOf(hist[i], {"Write"}) :
               hist[i].ops[k].data =
                   ChartNameFirst(manifests(hist[i].kind).values,
                                  LoadDir(hist[i].pre, hist[i].cwd).name, hist[i].name)

\* the working directory of h holds no Chart.yaml to load
NoChartIn(h) == ~IsFileIn(h.pre, h.cwd \o "/Chart.yaml")

\* the Chart.yaml in the working directory of h declares a name that the
\* validator rejects
ChartMisnamed(h) ==
    /\ IsFileIn(h.pre, h.cwd \o "/Chart.yaml")
    /\ validateChartName(ChartNameOf(h.pre[h.cwd \o "/Chart.yaml"].data)) # ErrNil

\* C22: when the working directory cannot be loaded as a chart, or the name
\* of the loaded chart fails validation, CreateManifest returns an error and
\* the empty path, and the filesystem is as it was: nothing is created,
\* written or opened.
C22_NoChartNoWrite ==
    \A i \in DOMAIN hist :
        (NoChartIn(hist[i]) \/ ChartMisnamed(hist[i])) =>
            /\ hist[i].err # ErrNil
            /\ hist[i].path = ""
            /\ hist[i].post = hist[i].pre
            /\ OpsOf(hist[i], WriteKinds) = {}

\* the command has run in a directory without Chart.yaml and in the directory
\* of a chart with a rejected name
C22_Witness ==
    \E i \in DOMAIN hist, j \in DOMAIN hist :
        /\ NoChartIn(hist[i])
        /\ Contains(hist[i].err, "could not load")
        /\ ChartMisnamed(hist[j])
        /\ hist[j].err = ErrNameChars
        /\ hist[j].kind \in RegistryKinds

\* the path of the manifest file of h and of the values file of its chart
ManifestPathOf(h) ==
    Join(h.cwd, "templates" \o "/" \o h.name \o "_" \o h.kind \o ".yaml")

ValuesPathOf(h) == h.cwd \o "/values.yaml"

\* the calls of h that create or write the manifest file, and the failed ones
FileWrites(h) == OpsOf(h, {"MkdirAll", "WriteFile"})

FileWriteFails(h) == \E k \in FileWrites(h) : h.ops[k].err # ErrNil

\* the open of values.yaml has failed
AppendFails(h) == \E k \in OpsOf(h, {"OpenFile"}) : h.ops[k].err # ErrNil

\* C23: CreateManifest opens and writes values.yaml only after the write of
\* the manifest file has succeeded; when the write of the manifest file fails
\* the error of that write is returned and values.yaml is neither opened nor
\* changed; when the write succeeds and the append fails the manifest file
\* is on disk with the bytes written and no error is returned.
C23_AppendAfterWrite ==
    \A i \in DOMAIN hist :
        /\ \A k \in OpsOf(hist[i], {"OpenFile", "Write"}) :
               \E j \in 1..(k - 1) :
                   /\ hist[i].ops[j].op = "WriteFile"
                   /\ hist[i].ops[j].path = ManifestPathOf(hist[i])
                   /\ hist[i].ops[j].err = ErrNil
        /\ FileWriteFails(hist[i]) =>
               /\ \E k \in FileWrites(hist[i]) : hist[i].err = hist[i].ops[k].err
               /\ hist[i].err # ErrNil
               /\ OpsOf(hist[i], {"OpenFile", "Write"}) = {}
               /\ (ValuesPathOf(hist[i]) \in DOMAIN hist[i].post)
                     = (ValuesPathOf(hist[i]) \in DOMAIN hist[i].pre)
               /\ ValuesPathOf(hist[i]) \in DOMAIN hist[i].pre =>
                      hist[i].post[ValuesPathOf(hist[i])]
                        = hist[i].pre[ValuesPathOf(hist[i])]
        /\ (AppendFails(hist[i]) /\ ~FileWriteFails(hist[i])) =>
               /\ hist[i].err = ErrNil
               /\ IsFileIn(hist[i].post, ManifestPathOf(hist[i]))
               /\ \E k \in OpsOf(hist[i], {"WriteFile"}) :
                      hist[i].post[ManifestPathOf(hist[i])].data = hist[i].ops[k].data
               /\ hist[i].post[ValuesPathOf(hist[i])] = hist[i].pre[ValuesPathOf(hist[i])]

\* one run has failed to write its manifest file, and one run has written
\* its manifest file and then failed to open values.yaml
C23_Witness ==
    \E i \in DOMAIN hist, j \in DOMAIN hist :
        /\ hist[i].kind \in RegistryKinds
        /\ \E k \in OpsOf(hist[i], {"WriteFile"}) : hist[i].ops[k].err # ErrNil
        /\ hist[i].err # ErrNil
        /\ hist[j].kind \in RegistryKinds
        /\ AppendFails(hist[j])
        /\ hist[j].err = ErrNil
        /\ IsFileIn(hist[j].post, ManifestPathOf(hist[j]))
        /\ ~IsFileIn(hist[j].pre, ManifestPathOf(hist[j]))

\* C24: every file a run of the manifest command writes lies inside the
\* templates directory of the working directory, and a manifest name that
\* breaks the lexical rule of chart names is refused before a file is written.
C24_ManifestInsideTemplates ==
    \A i \in DOMAIN hist :
        /\ \A k \in OpsOf(hist[i], {"WriteFile"}) :
               HasPrefix(hist[i].ops[k].path, hist[i].cwd \o "/templates/")
        /\ validateChartName(hist[i].name) # ErrNil =>
               /\ hist[i].err # ErrNil
               /\ OpsOf(hist[i], WriteKinds) = {}

(***************************************************************************)
(* Properties of sequences of invocations.                                 *)
(***************************************************************************)
\* the number of lines of text that open a top-level entry for key
KeyLines(text, key) ==
    Val([lines \in {Split(text, "\n")} |->
        Cardinality({k \in DOMAIN lines : lines[k] = key \o ":"})])

\* the append of h has written its bytes
AppendSucceeds(h) == \E k \in OpsOf(h, {"Write"}) : h.ops[k].err = ErrNil

\* the invocations i and i + 1 add the same module to the same chart, one
\* right after the other, and every write of both succeeds
AddTwice(i) ==
    /\ i + 1 \in DOMAIN hist
    /\ AddModuleRun(hist[i]) /\ AddModuleRun(hist[i + 1])
    /\ hist[i + 1].name = hist[i].name
    /\ hist[i + 1].dir = hist[i].dir
    /\ hist[i + 1].cwd = hist[i].cwd
    /\ hist[i + 1].pre = hist[i].post
    /\ WritesSucceed(hist[i]) /\ WritesSucceed(hist[i + 1])

\* C26: an add-module invocation whose append succeeds leaves values.yaml
\* with the bytes it held followed by one copy of the fragment of the module:
\* one more top-level entry for the module, whether or not there was one.
\* Two such invocations in a row leave two more entries, and the second one
\* leaves every manifest file and every other entry as the first left it.
C26_OneFragmentPerRun ==
    \A i \in DOMAIN hist :
        /\ (AddModuleRun(hist[i]) /\ AppendSucceeds(hist[i])) =>
               /\ hist[i].post[ValuesPathOf(hist[i])].data
                     = hist[i].pre[ValuesPathOf(hist[i])].data
                         \o transform(defaultValues, hist[i].name)
               /\ KeyLines(hist[i].post[ValuesPathOf(hist[i])].data, hist[i].name)
                     = KeyLines(hist[i].pre[ValuesPathOf(hist[i])].data, hist[i].name) + 1
        /\ AddTwice(i) =>
               /\ KeyLines(hist[i + 1].post[ValuesPathOf(hist[i])].data, hist[i].name)
                     = KeyLines(hist[i].pre[ValuesPathOf(hist[i])].data, hist[i].name) + 2
               /\ WrittenPaths(hist[i + 1]) = WrittenPaths(hist[i])
               /\ DOMAIN hist[i + 1].post = DOMAIN hist[i].post
               /\ \A p \in DOMAIN hist[i].post \ {ValuesPathOf(hist[i])} :
                      hist[i + 1].post[p] = hist[i].post[p]

\* the module cache has been added twice to the chart /w/demo: values.yaml
\* has two entries for it and the seven manifest files are there once
C26_Witness ==
    \E i \in DOMAIN hist :
        /\ AddTwice(i)
        /\ hist[i].name = "cache"
        /\ hist[i].cwd = "/w/demo"
        /\ KeyLines(hist[i + 1].post["/w/demo/values.yaml"].data, "cache") = 2
        /\ Cardinality(WrittenPaths(hist[i + 1])) = 7

\* the invocation i adds a module other than main to a chart, the invocation
\* i + 1 scaffolds that chart anew in its place, and every write of both
\* succeeds
AddThenNewUnit(i) ==
    /\ i + 1 \in DOMAIN hist
    /\ AddModuleRun(hist[i])
    /\ hist[i].name # "main"
    /\ NewUnitRun(hist[i + 1])
    /\ CdirOf(hist[i + 1]) = hist[i].cwd
    /\ hist[i + 1].pre = hist[i].post
    /\ WritesSucceed(hist[i]) /\ WritesSucceed(hist[i + 1])

\* C27: when a module has been added to a chart and the chart is then
\* scaffolded again as a new chart, the manifest files of the module are
\* still there with their bytes, and values.yaml of the chart holds the
\* fragment of main alone: no entry of the module is left.
C27_NewUnitResetsValues ==
    \A i \in DOMAIN hist :
        AddThenNewUnit(i) =>
            /\ \A p \in WrittenPaths(hist[i]) :
                   /\ IsFileIn(hist[i + 1].post, p)
                   /\ hist[i + 1].post[p] = hist[i].post[p]
            /\ KeyLines(hist[i].post[ValuesPathOf(hist[i])].data, hist[i].name) >= 1
            /\ hist[i + 1].post[ValuesPathOf(hist[i])].data
                  = transform(defaultValues, "main")
            /\ KeyLines(hist[i + 1].post[ValuesPathOf(hist[i])].data, hist[i].name) = 0

\* the chart /w/demo, made by a new-chart invocation, has got the module
\* cache and has then been scaffolded again from /w
C27_Witness ==
    \E i \in DOMAIN hist :
        /\ AddThenNewUnit(i)
        /\ hist[i].pre = ChartFs
        /\ hist[i].name = "cache"
        /\ hist[i].cwd = "/w/demo"
        /\ hist[i + 1].name = "demo"
        /\ Cardinality(WrittenPaths(hist[i])) = 7
        /\ KeyLines(hist[i].post["/w/demo/values.yaml"].data, "cache") = 1

\* the paths of a list of planned files, as the kernel resolves them in the
\* working directory PlanDir
PathsOf(files) == {Resolve(PlanDir, files[k].path) : k \in DOMAIN files}

\* C28: the seven manifest paths planned for a module are seven different
\* paths; the manifest paths planned for two different valid module names
\* have no path in common; and no manifest path of any module is the path
\* of Chart.yaml, values.yaml, .helmignore or templates/NOTES.txt.
C28_PlanPathsInjective ==
    \A i \in DOMAIN hist, j \in DOMAIN hist :
        /\ Cardinality(PathsOf(hist[i].files)) = 7
        /\ hist[i].name # hist[j].name =>
               PathsOf(hist[i].files) \cap PathsOf(hist[j].files) = {}
        /\ PathsOf(hist[i].files) \cap PathsOf(hist[j].base) = {}
        /\ PathsOf(hist[j].base) =
               {PlanDir \o "/Chart.yaml", PlanDir \o "/values.yaml",
                PlanDir \o "/.helmignore", PlanDir \o "/templates/NOTES.txt"}

\* the plans of the modules a and a_ for the same chart, one made by the
\* new-chart branch and one by the values.yaml branch
C28_Witness ==
    /\ Len(hist) = 2
    /\ hist[1].name = "a" /\ hist[1].cdir = PlanDir
    /\ hist[2].name = "a_" /\ hist[2].cdir = ""
    /\ PlanDir \o "/templates/a__ingress.yaml" \in PathsOf(hist[1].files)
    /\ PlanDir \o "/templates/a___ingress.yaml" \in PathsOf(hist[2].files)

\* the files h has written, each as its path below the chart directory of h
\* with its bytes, Chart.yaml left out
WrittenBelowChart(h) ==
    { <<SubSeq(h.ops[k].path, Len(CdirOf(h)) + 1, Len(h.ops[k].path)), h.ops[k].data>> :
        k \in {n \in OpsOf(h, {"WriteFile"}) :
                 h.ops[n].path # CdirOf(h) \o "/Chart.yaml"} }

\* two new-chart invocations from the same working directory with the same
\* dir, every write of both succeeding
NewUnitPair(i, j) ==
    /\ NewUnitRun(hist[i]) /\ NewUnitRun(hist[j])
    /\ hist[i].dir = hist[j].dir
    /\ hist[i].cwd = hist[j].cwd
    /\ WritesSucceed(hist[i]) /\ WritesSucceed(hist[j])

\* C29: two new-chart invocations that differ in the chart name only write,
\* Chart.yaml apart, the same paths below their chart directories with the
\* same bytes; values.yaml gets the fragment of the module main, in which
\* the chart name has no part.
C29_ContentIndependentOfName ==
    \A i \in DOMAIN hist, j \in DOMAIN hist :
        NewUnitPair(i, j) =>
            /\ WrittenBelowChart(hist[i]) = WrittenBelowChart(hist[j])
            /\ \A k \in OpsOf(hist[i], {"WriteFile"}) :
                   /\ HasPrefix(hist[i].ops[k].path, CdirOf(hist[i]) \o "/")
                   /\ hist[i].ops[k].path = CdirOf(hist[i]) \o "/values.yaml" =>
                          hist[i].ops[k].data = transform(defaultValues, "main")

\* the charts demo and cache have been scaffolded in /w: ten files with the
\* same bytes in each, and two different Chart.yaml
C29_Witness ==
    \E i \in DOMAIN hist, j \in DOMAIN hist :
        /\ NewUnitPair(i, j)
        /\ hist[i].name = "demo"
        /\ hist[j].name = "cache"
        /\ Cardinality(WrittenBelowChart(hist[i])) = 10
        /\ hist[i].post["/w/demo/Chart.yaml"].data # hist[j].post["/w/cache/Chart.yaml"].data
        /\ hist[j].post["/w/demo/values.yaml"].data = hist[j].post["/w/cache/values.yaml"].data

(***************************************************************************)
(* Properties of two invocations of Create running at the same time.       *)
(***************************************************************************)
\* the open of h has truncated a file that appeared after the check of h
\* had found none
LateOverwrite(h) ==
    /\ h.last.op = "Open"
    /\ h.last.existed
    /\ h.st = ENOENT

\* C25: when an invocation opens a file that another invocation has created
\* since its own existence check found none, it overwrites the file and has
\* printed no warning for it.
C25_RaceOverwriteUnwarned ==
    \A n \in DOMAIN hist :
        LateOverwrite(hist[n]) =>
            /\ ~hist[n].warned
            /\ ~hist[n].failed
            /\ hist[n].pc = "Write"
            /\ hist[n].last.path \in DOMAIN fs

\* an invocation has checked a path and found nothing, the other invocation
\* has then created the file and written its bytes, and the first has opened
\* and truncated that file without a warning
C25_Witness ==
    \E n \in DOMAIN hist :
        /\ LateOverwrite(hist[n])
        /\ hist[n].pc = "Write"
        /\ hist[n].last.path \notin DOMAIN hist[n].pre
        /\ hist[n].last.old # ""
        /\ ~hist[n].warned

\* the two invocations have the same name and dir and neither has taken the
\* values.yaml branch
BothNewUnit ==
    /\ \A n \in DOMAIN hist : hist[n].mode # "module"
    /\ hist[1].name = hist[2].name
    /\ hist[1].dir = hist[2].dir

\* both have returned from the new-chart branch, and no filesystem call of
\* either has failed
BothNewUnitDone ==
    /\ BothNewUnit
    /\ \A n \in DOMAIN hist :
           /\ hist[n].pc = "Done"
           /\ hist[n].mode = "chart"
           /\ ~hist[n].failed

\* the filesystem that the first invocation leaves when it runs alone
Alone == hist[1].alone

\* C30: when two new-chart invocations with the same name and dir have both
\* returned without a failed filesystem call, the filesystem holds the files
\* and the bytes that one such invocation run alone leaves, whatever the
\* interleaving was, and both have returned the chart directory and no error.
\* On the way there every file is one that the invocation run alone leaves,
\* and holds the bytes it has in the end or, just opened, none.
C30_RaceSameAsAlone ==
    /\ BothNewUnit =>
           \A p \in DOMAIN fs :
               /\ p \in DOMAIN Alone
               /\ fs[p].data \in {"", Alone[p].data}
    /\ BothNewUnitDone =>
           /\ fs = Alone
           /\ \A n \in DOMAIN hist :
                  /\ hist[n].err = ErrNil
                  /\ hist[n].path = "/w/" \o hist[n].name

\* both invocations have returned after each has truncated a file that the
\* other had created
C30_Witness ==
    /\ BothNewUnitDone
    /\ hist[1].overwrote
    /\ hist[2].overwrote
    /\ hist[1].pre = BareFs

(***************************************************************************)
(* Properties of CreateFrom.                                               *)
(***************************************************************************)
\* the positions in the call log of h of the calls of the saver
Saves(h) == {k \in DOMAIN h.ops : h.ops[k].op = "SaveDir"}

\* the texts of the chart c that CreateFrom is to rewrite: the templates, the
\* values and the raw values file
RewrittenTexts(c) ==
    {c.Templates[i].Data : i \in DOMAIN c.Templates}
      \cup {c.Values}
      \cup {c.Raw[i].Data : i \in {j \in DOMAIN c.Raw : c.Raw[j].Name = "values.yaml"}}

\* C11: the chart CreateFrom hands to the saver holds neither <CHARTNAME>
\* nor <MODULE_NAME> in any template or in the values file.
C11_NoMarkerInSavedChart ==
    \A i \in DOMAIN hist :
        \A k \in Saves(hist[i]) :
            \A t \in RewrittenTexts(hist[i].ops[k].chart) :
                /\ ~Contains(t, "<MODULE_NAME>")
                /\ ~Contains(t, "<CHARTNAME>")

\* C19: CreateFrom calls the loader once and the saver at most once; the
\* saver is called only after a successful load, with the templates and the
\* values rewritten; a failed load gives an error that holds the loader's
\* error and the source path, and no call of the saver; the error of the
\* saver is the error returned.
C19_SaverOnceAfterLoad ==
    \A i \in DOMAIN hist :
        /\ Cardinality({k \in DOMAIN hist[i].ops : hist[i].ops[k].op = "Load"}) = 1
        /\ Cardinality(Saves(hist[i])) <= 1
        /\ \A k \in Saves(hist[i]) :
               /\ \E j \in 1..(k - 1) :
                      /\ hist[i].ops[j].op = "Load"
                      /\ hist[i].ops[j].err = ErrNil
               /\ hist[i].loaded.err = ErrNil
               /\ Len(hist[i].ops[k].chart.Templates)
                     = Len(hist[i].loaded.chart.Templates)
               /\ \A t \in RewrittenTexts(hist[i].ops[k].chart) :
                      ~Contains(t, "<MODULE_NAME>")
               /\ hist[i].err = hist[i].ops[k].err
        /\ hist[i].loaded.err # ErrNil =>
               /\ Saves(hist[i]) = {}
               /\ hist[i].err # ErrNil
               /\ Contains(hist[i].err, hist[i].loaded.err)
               /\ Contains(hist[i].err, hist[i].src)

\* a chart of two templates has been loaded and rewritten, and the saver,
\* called once, has failed
C19_Witness ==
    \E i \in DOMAIN hist :
        /\ Cardinality(Saves(hist[i])) = 1
        /\ Len(hist[i].loaded.chart.Templates) = 2
        /\ hist[i].saveErr = ErrSave
        /\ hist[i].err = ErrSave

\* C21: the chart handed to the saver has the given chartfile as metadata,
\* the templates of the source chart in their number, order and names, and
\* the raw files of the source chart in their number, order and names; a raw
\* file not named values.yaml has the bytes it was loaded with.
C21_CloneFrame ==
    \A i \in DOMAIN hist :
        \A k \in Saves(hist[i]) :
            /\ hist[i].ops[k].chart.Metadata = hist[i].chartfile
            /\ DOMAIN hist[i].ops[k].chart.Templates
                  = DOMAIN hist[i].loaded.chart.Templates
            /\ \A n \in DOMAIN hist[i].loaded.chart.Templates :
                   hist[i].ops[k].chart.Templates[n].Name
                     = hist[i].loaded.chart.Templates[n].Name
            /\ DOMAIN hist[i].ops[k].chart.Raw = DOMAIN hist[i].loaded.chart.Raw
            /\ \A n \in DOMAIN hist[i].loaded.chart.Raw :
                   /\ hist[i].ops[k].chart.Raw[n].Name = hist[i].loaded.chart.Raw[n].Name
                   /\ hist[i].loaded.chart.Raw[n].Name # ValuesfileName =>
                          hist[i].ops[k].chart.Raw[n] = hist[i].loaded.chart.Raw[n]

\* a chart of two templates and a README.md that carries the module marker
\* has been rewritten and handed to the saver: a template has new bytes, the
\* metadata differ from the loaded ones
C21_Witness ==
    \E i \in DOMAIN hist :
        \E k \in Saves(hist[i]) :
            /\ Len(hist[i].loaded.chart.Templates) = 2
            /\ Len(hist[i].loaded.chart.Raw) = 2
            /\ hist[i].loaded.chart.Raw[1].Name = "README.md"
            /\ Contains(hist[i].loaded.chart.Raw[1].Data, "<MODULE_NAME>")
            /\ hist[i].ops[k].chart.Templates[1].Data
                  # hist[i].loaded.chart.Templates[1].Data
            /\ hist[i].ops[k].chart.Raw[2].Data # hist[i].loaded.chart.Raw[2].Data
            /\ hist[i].loaded.chart.Metadata # hist[i].chartfile

TypeOK ==
    /\ cwd \in WorkDirs
    /\ nenv \in 0..MaxEnv
    /\ Len(hist) <= MaxRuns
    /\ \A p \in DOMAIN fs : fs[p].kind \in {"dir", "file"}

====
